---- MODULE Spec2Model ----
(***************************************************************************)
(* Model of src/screen.rs (kiro-editor): the Screen that keeps a scrolled  *)
(* viewport on a text buffer and repaints a terminal incrementally.        *)
(*                                                                         *)
(* Option<T> is a sequence: None is << >>, Some(x) is <<x>>.               *)
(* A row is the sequence of the glyphs of its rendered text; a glyph is a  *)
(* one-character string, "W" being a double-width (CJK) glyph.             *)
(* Time is counted in ticks of half a second.                              *)
(* The output sink receives tokens <<tag, a, b, s>>, one per escape        *)
(* sequence or character cell; the terminal is a map from physical line    *)
(* (0-based) to the cells painted on it.                                   *)
(***************************************************************************)
EXTENDS Integers, Sequences, FiniteSets, TLC

VARIABLES
    rows, cx, cy,             \* TextBuffer: rows(), cx(), cy()
    status_bar,               \* StatusBar: left/right fragment lengths, redraw flag
    rx, num_cols, num_rows,   \* Screen fields
    message, message_is_shown,
    dirty_start, cursor_moved,
    rowoff, coloff,
    now,                      \* SystemTime::now(), in ticks
    term,                     \* what the terminal shows, line by line
    out,                      \* tokens written to the output sink by the last step
    op, result,               \* the last operation and how it ended
    calls,                    \* editor calls made since the last refresh
    hist,                     \* calls made so far (pure-function specifications)
    input, size,              \* get_window_size: events still to read, its result
    os_size                   \* what term_size::dimensions_stdout() answers

vars == <<rows, cx, cy, status_bar, rx, num_cols, num_rows, message,
          message_is_shown, dirty_start, cursor_moved, rowoff, coloff,
          now, term, out, op, result, calls, hist, input, size, os_size>>

textVars == <<rows, cx, cy>>
probeVars == <<input, size, os_size>>
screenVars == <<rx, num_cols, num_rows, message, message_is_shown,
                dirty_start, cursor_moved, rowoff, coloff>>

\* ---------------------------------------------------------------- bounds
MaxRows == 2          \* most rows the text buffer holds
MaxCalls == 1         \* most editor calls between two refreshes
MaxNow == 12          \* last clock value, in ticks
MaxMark == 4          \* largest line number passed to set_dirty_start alone
MaxFragment == 5      \* longest status bar fragment (status bar layout)
MaxWidth == 4         \* widest screen (status bar layout)

\* ------------------------------------------------------- program constants
MessageTimeoutSecs == 5   \* as_secs() > 5
ReservedLines == 2        \* h.saturating_sub(2)
MinHeight == 3            \* h < 3
WelcomeLen == 28          \* "Kiro editor -- version " and a version like 0.4.3
TicksPerSec == 2          \* resolution of the modelled clock
UsizeBits == 16           \* usize, scaled down from 64 bits

None == << >>
Some(x) == <<x>>
IsSome(o) == o /= << >>
Unwrap(o) == o[1]

Min(a, b) == IF a <= b THEN a ELSE b

UsizeModulus == 2 ^ UsizeBits
\* a - b + 1 computed in usize by a release build (wrapping)
WrapSubPlus1(a, b) == (a - b + 1 + UsizeModulus) % UsizeModulus
\* h.saturating_sub(2)
SaturatingSub(a, b) == IF a >= b THEN a - b ELSE 0

\* ------------------------------------------------------------ glyphs, rows
\* a glyph is "a", "b" (highlighted) or "W" (double width)
\* c.width_cjk().unwrap_or(1)
Width(g) == IF g = "W" THEN 2 ELSE 1
\* hl.color(): the colour of a glyph's highlight tag; Normal maps to Color::Reset
HlColor(g) == IF g = "b" THEN "Hl" ELSE "Reset"

RECURSIVE PrefixWidth(_, _)
\* summed display width of the first n glyphs of a row
PrefixWidth(row, n) ==
    IF n = 0 THEN 0 ELSE PrefixWidth(row, n - 1) + Width(row[n])

\* Row::rx_from_cx: the render column of the cursor at character index cx
RxFromCx(row, c) == PrefixWidth(row, Min(c, Len(row)))

\* the columns at which a glyph of the row starts or the row ends
Boundaries(row) == {PrefixWidth(row, n) : n \in 0..Len(row)}

RowSet == {<<"a", "b">>, <<"W">>}
WinSizes == {<<2, 3>>, <<3, 4>>, <<0, 2>>}
\* StatusBar::left, StatusBar::right: the lengths of the two fragments
StatusLeft == 2
StatusRight == 1
TickSteps == {11, 12}
SlowTicks == {12}

\* ------------------------------------------------------------------ Screen
\* Screen::rows
Rows(shown, nr) == IF shown THEN nr ELSE nr + 1

SetDirtyStartSwapped(mark, start) ==
    IF IsSome(mark) /\ Unwrap(mark) > start THEN mark ELSE Some(start)

\* Screen::set_dirty_start
SetDirtyStart(mark, start) ==
    IF IsSome(mark) /\ Unwrap(mark) < start THEN mark ELSE Some(start)

RECURSIVE NextColoffShort(_, _, _, _)
NextColoffShort(row, i, acc, want_stop) ==
    IF i > Len(row) THEN acc
    ELSE LET a == acc + Width(row[i])
         IN  IF a >= want_stop THEN acc
             ELSE NextColoffShort(row, i + 1, a, want_stop)

RECURSIVE NextColoffFrom(_, _, _, _)
\* the loop of next_coloff, from the i-th glyph on with acc columns summed
NextColoffFrom(row, i, acc, want_stop) ==
    IF i > Len(row) THEN acc
    ELSE LET a == acc + Width(row[i])
         IN  IF a >= want_stop THEN a
             ELSE NextColoffFrom(row, i + 1, a, want_stop)

\* Screen::next_coloff
NextColoff(want_stop, row) == NextColoffFrom(row, 1, 0, want_stop)

DoScrollFixedHeight(doc, ccx, ccy, s) ==
    LET rx1 == IF ccy < Len(doc) THEN RxFromCx(doc[ccy + 1], ccx) ELSE 0
        h == s.num_rows
        ro1 == IF ccy < s.rowoff THEN ccy ELSE s.rowoff
        ro2 == IF ccy >= ro1 + h THEN ccy - h + 1 ELSE ro1
        co1 == IF rx1 < s.coloff THEN rx1 ELSE s.coloff
        right == rx1 >= co1 + s.num_cols
        oob == right /\ ccy >= Len(doc)
        co2 == IF right /\ ~oob
               THEN NextColoff(rx1 - s.num_cols + 1, doc[ccy + 1])
               ELSE co1
        scrolled == ro2 /= s.rowoff \/ co2 /= s.coloff
    IN  [rx |-> rx1, rowoff |-> ro2, coloff |-> co2, panic |-> oob,
         dirty_start |-> IF scrolled /\ ~oob
                         THEN SetDirtyStart(s.dirty_start, ro2)
                         ELSE s.dirty_start]

\* Screen::do_scroll, on the fields it reads; panic: rows[cy] out of range
DoScroll(doc, ccx, ccy, s) ==
    LET rx1 == IF ccy < Len(doc) THEN RxFromCx(doc[ccy + 1], ccx) ELSE 0
        h == Rows(s.message_is_shown, s.num_rows)
        ro1 == IF ccy < s.rowoff THEN ccy ELSE s.rowoff
        ro2 == IF ccy >= ro1 + h THEN ccy - h + 1 ELSE ro1
        co1 == IF rx1 < s.coloff THEN rx1 ELSE s.coloff
        right == rx1 >= co1 + s.num_cols
        oob == right /\ ccy >= Len(doc)
        co2 == IF right /\ ~oob
               THEN NextColoff(rx1 - s.num_cols + 1, doc[ccy + 1])
               ELSE co1
        scrolled == ro2 /= s.rowoff \/ co2 /= s.coloff
    IN  [rx |-> rx1, rowoff |-> ro2, coloff |-> co2, panic |-> oob,
         dirty_start |-> IF scrolled /\ ~oob
                         THEN SetDirtyStart(s.dirty_start, ro2)
                         ELSE s.dirty_start]

\* ------------------------------------------------------------------ output
Tok(tag, a, b, s) == <<tag, a, b, s>>
Move(line) == Tok("Move", line, 0, "")          \* ESC [ line H
Cup(r, c) == Tok("Cup", r, c, "")               \* ESC [ r ; c H
Sgr(color) == Tok("Sgr", 0, 0, color)           \* term_color.sequence(color)
Ch(g) == Tok("Ch", 0, 0, g)                     \* one character cell
EraseLine == Tok("EL", 0, 0, "")                \* ESC [ K
HideCursor == Tok("Hide", 0, 0, "")             \* ESC [ ? 25 l
ShowCursor == Tok("Show", 0, 0, "")             \* ESC [ ? 25 h
Flush == Tok("Flush", 0, 0, "")                 \* output.flush(): a write ends here

\* n copies of a token
Repeat(t, n) == [i \in 1..n |-> t]

\* Screen::trim_line, on the length of an ASCII line: the length of the result
TrimLineLen(len, s) ==
    IF len <= s.coloff THEN 0 ELSE Min(len - s.coloff, s.num_cols)

StatusBarOnLastLine(s, sb) ==
    LET left == Min(sb.left, s.num_cols)
        rest_len == s.num_cols - left
        head == <<Move(s.num_rows + 2), Sgr("Invert")>> \o Repeat(Ch("L"), left)
    IN  IF rest_len = 0 THEN head
        ELSE IF sb.right > rest_len THEN head \o Repeat(Ch(" "), rest_len)
        ELSE head \o Repeat(Ch(" "), rest_len - sb.right)
                  \o Repeat(Ch("R"), sb.right) \o <<Sgr("Reset")>>

StatusBarOverlong(s, sb) ==
    LET left == Min(sb.left, s.num_cols)
        rest_len == s.num_cols - left
        head == <<Move(Rows(s.message_is_shown, s.num_rows) + 1), Sgr("Invert")>>
                \o Repeat(Ch("L"), left)
    IN  IF rest_len = 0 THEN head
        ELSE head \o Repeat(Ch(" "), SaturatingSub(rest_len, sb.right))
                  \o Repeat(Ch("R"), sb.right) \o <<Sgr("Reset")>>

\* Screen::draw_status_bar
DrawStatusBar(s, sb) ==
    LET left == Min(sb.left, s.num_cols)
        rest_len == s.num_cols - left
        head == <<Move(Rows(s.message_is_shown, s.num_rows) + 1), Sgr("Invert")>>
                \o Repeat(Ch("L"), left)
    IN  IF rest_len = 0 THEN head
        ELSE IF sb.right > rest_len THEN head \o Repeat(Ch(" "), rest_len)
        ELSE head \o Repeat(Ch(" "), rest_len - sb.right)
                  \o Repeat(Ch("R"), sb.right) \o <<Sgr("Reset")>>

\* duration_since(t)?.as_secs(), defined when tnow >= t
AsSecs(tnow, t) == (tnow - t) \div TicksPerSec

ClockError(msg, tnow) ==
    IsSome(msg) /\ IsSome(Unwrap(msg).timestamp)
    /\ tnow < Unwrap(Unwrap(msg).timestamp)

ShouldRedrawWhileShown(msg, tnow) == msg /= None

\* Screen::should_redraw_message_bar, when the clock comparison succeeds
ShouldRedrawMessageBar(msg, tnow) ==
    IF msg = None THEN FALSE
    ELSE IF IsSome(Unwrap(msg).timestamp)
         THEN AsSecs(tnow, Unwrap(Unwrap(msg).timestamp)) > MessageTimeoutSecs
         ELSE TRUE

\* StatusMessage::new
NewMessage(m) == [text |-> m.text, kind |-> m.kind, timestamp |-> None]

\* Screen::draw_message_bar: the tokens written and the message left
DrawMessageBar(s, tnow) ==
    IF s.message = None THEN [toks |-> << >>, message |-> None]
    ELSE LET m == Unwrap(s.message)
         IN  IF IsSome(m.timestamp) THEN [toks |-> << >>, message |-> None]
             ELSE LET msg == Repeat(Ch("M"), Min(m.text, s.num_cols))
                      body == IF m.kind = "Error"
                              THEN <<Sgr("RedBG")>> \o msg \o <<Sgr("Reset")>>
                              ELSE msg
                  IN  [toks |-> <<Move(s.num_rows + 2)>> \o body \o <<EraseLine>>,
                       message |-> Some([m EXCEPT !.timestamp = Some(tnow)])]

\* Screen::draw_welcome_message
DrawWelcomeMessage(s) ==
    LET welcome == TrimLineLen(WelcomeLen, s)
        padding == (s.num_cols - welcome) \div 2
    IN  (IF padding > 0 THEN <<Ch("~")>> \o Repeat(Ch(" "), padding - 1) ELSE << >>)
        \o Repeat(Ch("K"), welcome)

RECURSIVE DrawRowChars(_, _, _, _, _)
\* the character loop of draw_rows; acc is [toks, prev_color]
DrawRowChars(row, i, col, s, acc) ==
    IF i > Len(row) THEN acc
    ELSE LET c == col + Width(row[i])
         IN  IF c <= s.coloff THEN DrawRowChars(row, i + 1, c, s, acc)
             ELSE IF c > s.num_cols + s.coloff THEN acc
             ELSE LET color == HlColor(row[i])
                      t == IF color /= acc.prev_color
                           THEN acc.toks \o <<Sgr(color)>> ELSE acc.toks
                  IN  DrawRowChars(row, i + 1, c, s,
                                   [toks |-> t \o <<Ch(row[i])>>,
                                    prev_color |-> color])

\* one line of draw_rows
DrawRowLine(y, s, dirty, doc, acc) ==
    LET file_row == y + s.rowoff
        h == Rows(s.message_is_shown, s.num_rows)
        moved == [acc EXCEPT !.toks = @ \o <<Move(y + 1)>>]
        body ==
            IF file_row >= Len(doc)
            THEN IF doc = << >> /\ y = h \div 3
                 THEN [moved EXCEPT !.toks = @ \o DrawWelcomeMessage(s)]
                 ELSE [toks |-> moved.toks
                                \o (IF moved.prev_color /= "Reset"
                                    THEN <<Sgr("Reset")>> ELSE << >>)
                                \o <<Ch("~")>>,
                       prev_color |-> "Reset"]
            ELSE DrawRowChars(doc[file_row + 1], 1, 0, s, moved)
    IN  IF file_row < dirty THEN acc
        ELSE [body EXCEPT !.toks = @ \o <<EraseLine>>]

RECURSIVE DrawRowsFrom(_, _, _, _, _)
DrawRowsFrom(y, s, dirty, doc, acc) ==
    IF y >= Rows(s.message_is_shown, s.num_rows) THEN acc
    ELSE DrawRowsFrom(y + 1, s, dirty, doc, DrawRowLine(y, s, dirty, doc, acc))

\* Screen::draw_rows
DrawRows(s, dirty, doc) ==
    LET acc == DrawRowsFrom(0, s, dirty, doc,
                            [toks |-> <<Sgr("Reset")>>, prev_color |-> "Reset"])
    IN  acc.toks \o (IF acc.prev_color /= "Reset" THEN <<Sgr("Reset")>> ELSE << >>)

\* ---------------------------------------------------------------- terminal
TermLines == 0 .. (CHOOSE h \in {sz[2] : sz \in WinSizes} :
                       \A sz \in WinSizes : sz[2] <= h) - 1
Unpainted == <<"?">>

RECURSIVE ApplyFrom(_, _, _, _)
\* the terminal after the tokens from the i-th on, the cursor being on `line`:
\* a Move starts a line afresh, a character lands on the cursor's line
ApplyFrom(t, line, toks, i) ==
    IF i > Len(toks) THEN t
    ELSE LET k == toks[i]
         IN  IF k[1] = "Move"
             THEN ApplyFrom(IF (k[2] - 1) \in DOMAIN t
                            THEN [t EXCEPT ![k[2] - 1] = << >>] ELSE t,
                            k[2] - 1, toks, i + 1)
             ELSE IF k[1] = "Ch"
             THEN ApplyFrom(IF line \in DOMAIN t
                            THEN [t EXCEPT ![line] = Append(@, k[4])] ELSE t,
                            line, toks, i + 1)
             ELSE IF k[1] = "Cup" THEN ApplyFrom(t, -1, toks, i + 1)
             ELSE ApplyFrom(t, line, toks, i + 1)

ApplyTokens(t, toks) == ApplyFrom(t, -1, toks, 1)

\* the terminal is followed on its text area only: a line that holds the status
\* bar or the message bar, or lies below them, shows no text row
Outside == <<"#">>
TextArea(t, h) == [y \in DOMAIN t |-> IF y < h THEN t[y] ELSE Outside]

\* ------------------------------------------------------------------ redraw
\* the Screen fields as a record
Self == [rx |-> rx, num_cols |-> num_cols, num_rows |-> num_rows,
         message |-> message, message_is_shown |-> message_is_shown,
         dirty_start |-> dirty_start, cursor_moved |-> cursor_moved,
         rowoff |-> rowoff, coloff |-> coloff]

HasTimestamp(msg) == IsSome(msg) /\ IsSome(Unwrap(msg).timestamp)

NextDirtyStartOffByOne(squashing, ro, h) ==
    IF squashing THEN Some(ro + h) ELSE None

\* Screen::redraw, its result: the line that squashing the message bar reveals
NextDirtyStart(squashing, ro, h) ==
    IF squashing THEN Some(ro + h - 1) ELSE None

\* Screen::redraw: does cy - rowoff or rx - coloff underflow?
Underflows(s, ccy) == ccy < s.rowoff \/ s.rx < s.coloff

\* Screen::redraw. build is "debug" (arithmetic overflow panics) or "release"
\* (it wraps). res is "ok", "err" (the clock error) or "panic".
Redraw(s, doc, ccy, sb, tnow, build) ==
    LET underflow == Underflows(s, ccy)
        cursor_row == WrapSubPlus1(ccy, s.rowoff)
        cursor_col == WrapSubPlus1(s.rx, s.coloff)
        same == [res |-> "ok", out |-> << >>, message |-> s.message,
                 message_is_shown |-> s.message_is_shown, next |-> None]
    IN  IF underflow /\ build = "debug" THEN [same EXCEPT !.res = "panic"]
        ELSE IF ClockError(s.message, tnow) THEN [same EXCEPT !.res = "err"]
        ELSE
        LET redraw_message_bar == ShouldRedrawMessageBar(s.message, tnow)
        IN  IF s.dirty_start = None /\ ~sb.redraw /\ ~redraw_message_bar
            THEN [same EXCEPT !.out = IF s.cursor_moved
                                      THEN <<Cup(cursor_row, cursor_col), Flush>>
                                      ELSE << >>]
            ELSE
            LET rowtoks == IF IsSome(s.dirty_start)
                           THEN DrawRows(s, Unwrap(s.dirty_start), doc)
                           ELSE << >>
                mb == IF redraw_message_bar THEN DrawMessageBar(s, tnow)
                      ELSE [toks |-> << >>, message |-> s.message]
                shown == HasTimestamp(mb.message)
                squashing == s.message_is_shown /\ ~shown
                toggling == s.message_is_shown /= shown
                s2 == [s EXCEPT !.message = mb.message,
                                !.message_is_shown = shown]
                sbtoks == IF sb.redraw \/ toggling
                          THEN DrawStatusBar(s2, sb) ELSE << >>
            IN  [res |-> "ok",
                 out |-> <<HideCursor, Flush>> \o rowtoks \o mb.toks \o sbtoks
                         \o <<Cup(cursor_row, cursor_col), ShowCursor, Flush>>,
                 message |-> mb.message,
                 message_is_shown |-> shown,
                 next |-> NextDirtyStart(squashing, s.rowoff,
                                         Rows(shown, s.num_rows))]

\* Screen::new: the fields of the Screen built for a window of w columns, h lines
NewScreen(w, h) ==
    [rx |-> 0, num_cols |-> w, num_rows |-> SaturatingSub(h, ReservedLines),
     message |-> Some(NewMessage([text |-> 15, kind |-> "Info"])),
     message_is_shown |-> FALSE, dirty_start |-> Some(0),
     cursor_moved |-> TRUE, rowoff |-> 0, coloff |-> 0]

\* Screen::new: does it fail with TooSmallWindow?
TooSmallWindow(w, h) == w = 0 \/ h < MinHeight

InitDocs == {<< >>, <<CHOOSE r \in RowSet : Len(r) = 2>>}
Messages == {[text |-> 15, kind |-> "Info"], [text |-> 9, kind |-> "Error"]}
Builds == {"debug", "release"}
\* the builds to tell apart: they differ only when a subtraction underflows
BuildsAt(underflow) == IF underflow THEN Builds ELSE {"release"}

\* the Screen exists: no panic so far, and it was not dropped
Alive == result /= "panic" /\ op /= "drop"

\* an editor call between two refreshes
Called == calls < MaxCalls /\ calls' = calls + 1

Init ==
    /\ rows \in InitDocs
    /\ cx = 0 /\ cy = 0
    /\ status_bar = [left |-> StatusLeft, right |-> StatusRight, redraw |-> TRUE]
    /\ \E sz \in WinSizes :
          /\ ~TooSmallWindow(sz[1], sz[2])
          /\ LET s == NewScreen(sz[1], sz[2])
             IN  /\ rx = s.rx /\ num_cols = s.num_cols /\ num_rows = s.num_rows
                 /\ message = s.message
                 /\ message_is_shown = s.message_is_shown
                 /\ dirty_start = s.dirty_start
                 /\ cursor_moved = s.cursor_moved
                 /\ rowoff = s.rowoff /\ coloff = s.coloff
    /\ now = 0
    /\ term = TextArea([y \in TermLines |-> Unpainted],
                        Rows(FALSE, num_rows))
    /\ out = <<Tok("AltScreen", 0, 0, "")>>
    /\ op = "new" /\ result = "ok"
    /\ calls = 0
    /\ hist = << >>
    /\ input = << >> /\ size = None /\ os_size = None

\* Screen::refresh, built as `build`
RefreshBuilt(sc, s1, build) ==
    LET r == IF sc.panic
             THEN [res |-> "panic", out |-> << >>, message |-> message,
                   message_is_shown |-> message_is_shown, next |-> None]
             ELSE Redraw(s1, rows, cy, status_bar, now, build)
    IN  /\ rx' = sc.rx /\ rowoff' = sc.rowoff /\ coloff' = sc.coloff
        /\ message' = r.message
        /\ message_is_shown' = r.message_is_shown
        /\ dirty_start' = IF r.res = "ok" THEN r.next ELSE sc.dirty_start
        /\ cursor_moved' = IF r.res = "ok" THEN FALSE ELSE cursor_moved
        /\ out' = r.out
        /\ term' = IF r.res = "ok"
                   THEN TextArea(ApplyTokens(term, r.out),
                                 Rows(r.message_is_shown, num_rows))
                   ELSE term
        /\ result' = r.res

\* Screen::refresh
Refresh ==
    /\ Alive
    /\ LET sc == DoScroll(rows, cx, cy, Self)
           s1 == [Self EXCEPT !.rx = sc.rx, !.rowoff = sc.rowoff,
                              !.coloff = sc.coloff,
                              !.dirty_start = sc.dirty_start]
       IN  \E build \in BuildsAt(Underflows(s1, cy)) : RefreshBuilt(sc, s1, build)
    /\ op' = IF op \in {"refresh", "refresh_again"}
             THEN "refresh_again" ELSE "refresh"
    /\ calls' = 0
    /\ UNCHANGED <<textVars, status_bar, num_cols, num_rows, now, hist, probeVars>>

\* ----------------------------------------------------- the editor's calls
RowLenAt(doc, y) == IF y < Len(doc) THEN Len(doc[y + 1]) ELSE 0

\* the text buffer becomes doc, its first changed line being reported through
\* set_dirty_start(from); the edit leaves the cursor on line `at` or on the next
\* one, at the start or at the end of the line
Edited(doc, from, at) ==
    /\ rows' = doc
    /\ \E y \in {at, at + 1} \cap 0..Len(doc) : \E x \in {0, RowLenAt(doc, y)} :
          cy' = y /\ cx' = x
    /\ dirty_start' = SetDirtyStart(dirty_start, from)
    /\ cursor_moved' = (cursor_moved \/ cx' /= cx \/ cy' /= cy)
    /\ out' = << >> /\ op' = "call" /\ result' = "ok" /\ Called
    /\ UNCHANGED <<status_bar, rx, num_cols, num_rows, message, message_is_shown,
                   rowoff, coloff, now, term, hist, probeVars>>

\* a row is rewritten
SetRow ==
    /\ Alive
    /\ \E i \in 1..Len(rows), r \in RowSet, from \in 0..MaxRows :
          /\ r /= rows[i] /\ from <= i - 1
          /\ Edited([rows EXCEPT ![i] = r], from, i - 1)

\* a row is inserted before the i-th
InsertRow ==
    /\ Alive /\ Len(rows) < MaxRows
    /\ \E i \in 1..Len(rows) + 1, r \in RowSet, from \in 0..MaxRows :
          /\ from <= i - 1
          /\ Edited(SubSeq(rows, 1, i - 1) \o <<r>> \o SubSeq(rows, i, Len(rows)),
                    from, i - 1)

\* the i-th row is deleted
DeleteRow ==
    /\ Alive
    /\ \E i \in 1..Len(rows), from \in 0..MaxRows :
          /\ from <= i - 1
          /\ Edited(SubSeq(rows, 1, i - 1) \o SubSeq(rows, i + 1, Len(rows)),
                    from, i - 1)

\* the cursor is moved; the editor raises cursor_moved
MoveCursor ==
    /\ Alive
    /\ \E y \in 0..Len(rows) : \E x \in 0..RowLenAt(rows, y) :
          /\ <<x, y>> /= <<cx, cy>>
          /\ cx' = x /\ cy' = y
    /\ cursor_moved' = TRUE
    /\ out' = << >> /\ op' = "call" /\ result' = "ok" /\ Called
    /\ UNCHANGED <<rows, status_bar, rx, num_cols, num_rows, message,
                   message_is_shown, dirty_start, rowoff, coloff, now,
                   term, hist, probeVars>>

\* Screen::set_info_message, Screen::set_error_message
SetMessage ==
    /\ Alive
    /\ \E m \in Messages : message' = Some(NewMessage(m))
    /\ out' = << >> /\ op' = "call" /\ result' = "ok" /\ Called
    /\ UNCHANGED <<textVars, status_bar, rx, num_cols, num_rows, message_is_shown,
                   dirty_start, cursor_moved, rowoff, coloff, now,
                   term, hist, probeVars>>

\* Screen::unset_message
UnsetMessage ==
    /\ Alive
    /\ message /= None
    /\ message' = None
    /\ out' = << >> /\ op' = "call" /\ result' = "ok" /\ Called
    /\ UNCHANGED <<textVars, status_bar, rx, num_cols, num_rows, message_is_shown,
                   dirty_start, cursor_moved, rowoff, coloff, now,
                   term, hist, probeVars>>

\* the status bar's content changes and its redraw flag is raised
StatusBarUpdate ==
    /\ Alive
    /\ ~status_bar.redraw
    /\ status_bar' = [status_bar EXCEPT !.redraw = TRUE]
    /\ out' = << >> /\ op' = "call" /\ result' = "ok" /\ Called
    /\ UNCHANGED <<textVars, screenVars, now, term, hist, probeVars>>

\* the editor lowers the redraw flag once a frame has shown the status bar
StatusBarShown ==
    /\ Alive
    /\ op = "refresh" /\ result = "ok" /\ status_bar.redraw
    /\ status_bar' = [status_bar EXCEPT !.redraw = FALSE]
    /\ out' = << >> /\ op' = "call" /\ result' = "ok" /\ Called
    /\ UNCHANGED <<textVars, screenVars, now, term, hist, probeVars>>

\* Screen::maybe_resize: sigwinch.notified() answers `notified`, and the window
\* size is obtained as sz = <<w, h>>
MaybeResize ==
    /\ Alive
    /\ \E notified \in BOOLEAN :
          IF ~notified
          THEN UNCHANGED <<num_rows, num_cols, dirty_start>>
          ELSE \E sz \in WinSizes :
                  /\ num_rows' = SaturatingSub(sz[2], ReservedLines)
                  /\ num_cols' = sz[1]
                  /\ dirty_start' = Some(0)
    /\ out' = << >> /\ op' = "call" /\ result' = "ok" /\ Called
    /\ UNCHANGED <<textVars, status_bar, rx, message, message_is_shown,
                   cursor_moved, rowoff, coloff, now, term, hist, probeVars>>

\* time passes
Tick(d) ==
    /\ Alive
    /\ now + d <= MaxNow /\ now' = now + d
    /\ out' = << >> /\ op' = "call" /\ result' = "ok"
    /\ UNCHANGED <<textVars, status_bar, screenVars, term, calls, hist, probeVars>>

Next ==
    \/ Refresh
    \/ SetRow
    \/ InsertRow
    \/ DeleteRow
    \/ MoveCursor
    \/ SetMessage
    \/ UnsetMessage
    \/ StatusBarUpdate
    \/ StatusBarShown
    \/ MaybeResize
    \/ \E d \in SlowTicks : Tick(d)

Spec == Init /\ [][Next]_vars

\* ------------------------------------------- cursor moves, messages, time
CursorDocs == {<<<<"a", "b">>, <<"W">>, <<"a", "W", "W">>>>, <<<<"W">>>>}

InitCursor ==
    /\ rows \in CursorDocs
    /\ cx = 0 /\ cy = 0
    /\ status_bar = [left |-> StatusLeft, right |-> StatusRight, redraw |-> TRUE]
    /\ \E sz \in WinSizes :
          /\ ~TooSmallWindow(sz[1], sz[2])
          /\ LET s == NewScreen(sz[1], sz[2])
             IN  /\ rx = s.rx /\ num_cols = s.num_cols /\ num_rows = s.num_rows
                 /\ message = s.message
                 /\ message_is_shown = s.message_is_shown
                 /\ dirty_start = s.dirty_start
                 /\ cursor_moved = s.cursor_moved
                 /\ rowoff = s.rowoff /\ coloff = s.coloff
    /\ now = 0
    /\ term = TextArea([y \in TermLines |-> Unpainted], Rows(FALSE, num_rows))
    /\ out = <<Tok("AltScreen", 0, 0, "")>>
    /\ op = "new" /\ result = "ok"
    /\ calls = 0
    /\ hist = << >>
    /\ input = << >> /\ size = None /\ os_size = None

NextCursor ==
    \/ Refresh
    \/ MoveCursor
    \/ SetMessage
    \/ StatusBarShown
    \/ \E d \in TickSteps : Tick(d)

SpecCursor == InitCursor /\ [][NextCursor]_vars

\* ------------------------------------------------ set_dirty_start, alone
Marks == {None} \cup {Some(n) : n \in 0..MaxMark}

InitMark ==
    /\ rows = << >> /\ cx = 0 /\ cy = 0
    /\ status_bar = [left |-> StatusLeft, right |-> StatusRight, redraw |-> TRUE]
    /\ rx = 0 /\ num_cols = 2 /\ num_rows = 1
    /\ message = None /\ message_is_shown = FALSE
    /\ dirty_start \in Marks
    /\ cursor_moved = FALSE /\ rowoff = 0 /\ coloff = 0
    /\ now = 0
    /\ term = [y \in TermLines |-> Unpainted]
    /\ out = << >>
    /\ op = "new" /\ result = "ok"
    /\ calls = 0
    /\ hist = << >>
    /\ input = << >> /\ size = None /\ os_size = None

\* Screen::set_dirty_start(start), the call being noted in hist
SetDirtyStartCall(start) ==
    /\ Len(hist) < 2
    /\ dirty_start' = SetDirtyStart(dirty_start, start)
    /\ hist' = Append(hist, [start |-> start, before |-> dirty_start])
    /\ op' = "set_dirty_start"
    /\ UNCHANGED <<textVars, status_bar, rx, num_cols, num_rows, message,
                   message_is_shown, cursor_moved, rowoff, coloff, now, term,
                   out, result, calls, probeVars>>

NextMark == \E start \in 0..MaxMark : SetDirtyStartCall(start)

SpecMark == InitMark /\ [][NextMark]_vars

\* ------------------------------------------------ draw_status_bar, alone
InitStatusBar ==
    /\ rows = << >> /\ cx = 0 /\ cy = 0
    /\ status_bar \in [left : 0..MaxFragment, right : 0..MaxFragment,
                       redraw : {TRUE}]
    /\ rx = 0 /\ num_cols \in 0..MaxWidth /\ num_rows = 1
    /\ message = None /\ message_is_shown \in BOOLEAN
    /\ dirty_start = None
    /\ cursor_moved = FALSE /\ rowoff = 0 /\ coloff = 0
    /\ now = 0
    /\ term = [y \in TermLines |-> Unpainted]
    /\ out = << >>
    /\ op = "new" /\ result = "ok"
    /\ calls = 0
    /\ hist = << >>
    /\ input = << >> /\ size = None /\ os_size = None

\* Screen::draw_status_bar into the output sink
DrawStatusBarCall ==
    /\ op = "new"
    /\ out' = DrawStatusBar(Self, status_bar)
    /\ op' = "draw_status_bar"
    /\ UNCHANGED <<textVars, status_bar, screenVars, now, term, result, calls,
                   hist, probeVars>>

NextStatusBar == DrawStatusBarCall

SpecStatusBar == InitStatusBar /\ [][NextStatusBar]_vars

\* ------------------------------------- failures: the clock, the sink, drop
\* the system clock is set back
ClockBack ==
    /\ Alive
    /\ now > 0
    /\ now' = 0
    /\ out' = << >> /\ op' = "call" /\ result' = "ok"
    /\ UNCHANGED <<textVars, status_bar, screenVars, term, calls, hist, probeVars>>

IoPoints == {"cursor", "hide", "frame"}

\* Screen::refresh in which a write to the output sink fails: the write of the
\* cursor position of an idle cycle ("cursor"), the write of the cursor-hide
\* command ("hide") or the write of the frame's buffer ("frame"). The failed
\* write passes no byte on; redraw returns the error by `?` and refresh
\* returns it before it assigns dirty_start and cursor_moved.
RefreshFails(point) ==
    /\ Alive
    /\ LET sc == DoScroll(rows, cx, cy, Self)
           s1 == [Self EXCEPT !.rx = sc.rx, !.rowoff = sc.rowoff,
                              !.coloff = sc.coloff,
                              !.dirty_start = sc.dirty_start]
           r == Redraw(s1, rows, cy, status_bar, now, "release")
           repaint == r.out /= << >> /\ r.out[1] = HideCursor
       IN  /\ ~sc.panic /\ ~Underflows(s1, cy) /\ r.res = "ok" /\ r.out /= << >>
           /\ (point = "cursor") = ~repaint
           /\ rx' = sc.rx /\ rowoff' = sc.rowoff /\ coloff' = sc.coloff
           /\ dirty_start' = sc.dirty_start
           /\ message' = IF point = "frame" THEN r.message ELSE message
           /\ message_is_shown' = IF point = "frame" THEN r.message_is_shown
                                  ELSE message_is_shown
           /\ out' = IF point = "frame" THEN <<HideCursor, Flush>> ELSE << >>
    /\ op' = "refresh" /\ result' = "io_err"
    /\ calls' = 0
    /\ UNCHANGED <<textVars, status_bar, num_cols, num_rows, cursor_moved, now,
                   term, hist, probeVars>>

\* Drop for Screen: write_flush of the leave-alternate-screen sequence, with
\* expect() on its result
Drop(failing) ==
    /\ Alive
    /\ out' = IF failing THEN << >>
              ELSE <<Tok("NormalScreen", 0, 0, ""), Tok("Home", 0, 0, ""), Flush>>
    /\ op' = "drop"
    /\ result' = IF failing THEN "panic" ELSE "ok"
    /\ UNCHANGED <<textVars, status_bar, screenVars, now, term, calls, hist,
                   probeVars>>

\* Screen::new for the smallest window it accepts
InitFaults ==
    /\ rows \in InitDocs
    /\ cx = 0 /\ cy = 0
    /\ status_bar = [left |-> StatusLeft, right |-> StatusRight, redraw |-> TRUE]
    /\ \E sz \in WinSizes :
          /\ ~TooSmallWindow(sz[1], sz[2])
          /\ \A other \in WinSizes :
                TooSmallWindow(other[1], other[2]) \/ sz[2] <= other[2]
          /\ LET s == NewScreen(sz[1], sz[2])
             IN  /\ rx = s.rx /\ num_cols = s.num_cols /\ num_rows = s.num_rows
                 /\ message = s.message
                 /\ message_is_shown = s.message_is_shown
                 /\ dirty_start = s.dirty_start
                 /\ cursor_moved = s.cursor_moved
                 /\ rowoff = s.rowoff /\ coloff = s.coloff
    /\ now = 0
    /\ term = TextArea([y \in TermLines |-> Unpainted], Rows(FALSE, num_rows))
    /\ out = <<Tok("AltScreen", 0, 0, "")>>
    /\ op = "new" /\ result = "ok"
    /\ calls = 0
    /\ hist = << >>
    /\ input = << >> /\ size = None /\ os_size = None

NextFaults ==
    \/ Refresh
    \/ \E point \in IoPoints : RefreshFails(point)
    \/ MoveCursor
    \/ SetMessage
    \/ StatusBarShown
    \/ \E d \in SlowTicks : Tick(d)
    \/ ClockBack
    \/ \E failing \in BOOLEAN : Drop(failing)

SpecFaults == InitFaults /\ [][NextFaults]_vars

\* ------------------------------------------------- get_window_size
\* an item of the input stream: a decoded key, a cursor-position report
\* KeySeq::Cursor(r, c), or a failed read
KeyEvent == <<"Key", 0, 0>>
CursorEvent(r, c) == <<"Cursor", r, c>>
ErrEvent == <<"Err", 0, 0>>
Events == {KeyEvent, ErrEvent, CursorEvent(4, 3), CursorEvent(3, 2)}
MaxInput == 3
Streams == UNION {[1..n -> Events] : n \in 0..MaxInput}
OsSizes == {None, Some(<<3, 4>>)}
\* ESC [ 9999 C  ESC [ 9999 B  ESC [ 6 n
ProbeQuery == <<Tok("FarRight", 0, 0, ""), Tok("FarDown", 0, 0, ""),
                Tok("QueryCursor", 0, 0, "")>>
SinkFaults == {"none", "write", "flush"}

RECURSIVE WaitForReportGuessing(_, _)
WaitForReportGuessing(stream, i) ==
    IF i > Len(stream)
    THEN [res |-> "ok", size |-> Some(<<3, 4>>), used |-> Len(stream)]
    ELSE IF stream[i][1] = "Err"
    THEN [res |-> "input_err", size |-> None, used |-> i]
    ELSE IF stream[i][1] = "Cursor"
    THEN [res |-> "ok", size |-> Some(<<stream[i][3], stream[i][2]>>), used |-> i]
    ELSE WaitForReportGuessing(stream, i + 1)

RECURSIVE WaitForReport(_, _)
\* get_window_size, its loop over the input from the i-th item on: how it
\* ends, the size returned and the number of items taken from the stream
WaitForReport(stream, i) ==
    IF i > Len(stream)
    THEN [res |-> "unknown_window_size", size |-> None, used |-> Len(stream)]
    ELSE IF stream[i][1] = "Err"
    THEN [res |-> "input_err", size |-> None, used |-> i]
    ELSE IF stream[i][1] = "Cursor"
    THEN [res |-> "ok", size |-> Some(<<stream[i][3], stream[i][2]>>), used |-> i]
    ELSE WaitForReport(stream, i + 1)

\* get_window_size: os is what the OS reports, fault tells which call on the
\* sink fails
GetWindowSize(os, stream, fault) ==
    IF IsSome(os)
    THEN [res |-> "ok", size |-> os, used |-> 0, out |-> << >>]
    ELSE IF fault = "write"
    THEN [res |-> "io_err", size |-> None, used |-> 0, out |-> << >>]
    ELSE IF fault = "flush"
    THEN [res |-> "io_err", size |-> None, used |-> 0, out |-> ProbeQuery]
    ELSE LET w == WaitForReport(stream, 1)
         IN  [res |-> w.res, size |-> w.size, used |-> w.used,
              out |-> ProbeQuery \o <<Flush>>]

\* Screen::maybe_resize after a SIGWINCH, with the size probed by
\* get_window_size; hist takes the items read from the input
MaybeResizeProbing(fault) ==
    /\ Alive
    /\ LET r == GetWindowSize(os_size, input, fault)
       IN  /\ hist' = SubSeq(input, 1, r.used)
           /\ input' = SubSeq(input, r.used + 1, Len(input))
           /\ size' = r.size
           /\ out' = r.out
           /\ result' = r.res
           /\ IF r.res = "ok"
              THEN /\ num_rows' = SaturatingSub(Unwrap(r.size)[2], ReservedLines)
                   /\ num_cols' = Unwrap(r.size)[1]
                   /\ dirty_start' = Some(0)
              ELSE UNCHANGED <<num_rows, num_cols, dirty_start>>
    /\ op' = "maybe_resize"
    /\ UNCHANGED <<textVars, status_bar, rx, message, message_is_shown,
                   cursor_moved, rowoff, coloff, now, term, calls, os_size>>

\* the OS starts or stops reporting the window size (stdout is redirected)
OsSizeChanges ==
    /\ Alive
    /\ os_size' \in OsSizes \ {os_size}
    /\ out' = << >> /\ op' = "call" /\ result' = "ok"
    /\ UNCHANGED <<textVars, status_bar, screenVars, now, term, calls, hist,
                   input, size>>

\* a Screen built with a size hint, and the input that is still to come
InitProbe ==
    /\ rows \in InitDocs
    /\ cx = 0 /\ cy = 0
    /\ status_bar = [left |-> StatusLeft, right |-> StatusRight, redraw |-> TRUE]
    /\ LET s == NewScreen(3, 4)
       IN  /\ rx = s.rx /\ num_cols = s.num_cols /\ num_rows = s.num_rows
           /\ message = s.message
           /\ message_is_shown = s.message_is_shown
           /\ dirty_start = s.dirty_start
           /\ cursor_moved = s.cursor_moved
           /\ rowoff = s.rowoff /\ coloff = s.coloff
    /\ now = 0
    /\ term = TextArea([y \in TermLines |-> Unpainted], Rows(FALSE, num_rows))
    /\ out = <<Tok("AltScreen", 0, 0, "")>>
    /\ op = "new" /\ result = "ok"
    /\ calls = 0
    /\ hist = << >>
    /\ input \in Streams /\ size = None /\ os_size \in OsSizes

NextProbe ==
    \/ \E fault \in SinkFaults : MaybeResizeProbing(fault)
    \/ OsSizeChanges

SpecProbe == InitProbe /\ [][NextProbe]_vars

\* ------------------------------------------------- do_scroll, alone
\* a text of 60 rows on a terminal of 80 columns and 24 lines
ScrollDoc == [i \in 1..60 |-> <<"a", "b">>]
ScrollRows == {0, 22, 23, 50, 55}
ScrollOffsets == {0, 29, 45}
ScrollMarks == {None, Some(0), Some(29), Some(40)}

\* a Screen built for 80x24 that has scrolled and painted since
InitScroll ==
    /\ rows = ScrollDoc
    /\ cx \in 0..2 /\ cy \in ScrollRows
    /\ status_bar = [left |-> StatusLeft, right |-> StatusRight, redraw |-> FALSE]
    /\ rx = 0 /\ num_cols = NewScreen(80, 24).num_cols
    /\ num_rows = NewScreen(80, 24).num_rows
    /\ message_is_shown \in BOOLEAN
    /\ message = IF message_is_shown
                 THEN Some([text |-> 15, kind |-> "Info", timestamp |-> Some(0)])
                 ELSE None
    /\ dirty_start \in ScrollMarks
    /\ cursor_moved = TRUE
    /\ rowoff \in ScrollOffsets /\ coloff \in {0, 1}
    /\ now = 0
    /\ term = [y \in TermLines |-> Outside]
    /\ out = << >>
    /\ op = "call" /\ result = "ok"
    /\ calls = 0
    /\ hist = << >>
    /\ input = << >> /\ size = None /\ os_size = None

\* Screen::do_scroll(rows, cx, cy), the fields it found being noted in hist
DoScrollCall ==
    /\ Alive /\ hist = << >>
    /\ LET sc == DoScroll(rows, cx, cy, Self)
       IN  /\ rx' = sc.rx /\ rowoff' = sc.rowoff /\ coloff' = sc.coloff
           /\ dirty_start' = sc.dirty_start
           /\ result' = IF sc.panic THEN "panic" ELSE "ok"
    /\ hist' = <<[rowoff |-> rowoff, coloff |-> coloff, dirty_start |-> dirty_start]>>
    /\ out' = << >> /\ op' = "do_scroll"
    /\ UNCHANGED <<textVars, status_bar, num_cols, num_rows, message,
                   message_is_shown, cursor_moved, now, term, calls, probeVars>>

NextScroll == DoScrollCall

SpecScroll == InitScroll /\ [][NextScroll]_vars

\* ================================================================ claims
AfterRefresh == op \in {"refresh", "refresh_again"} /\ result = "ok"
RefreshStep == op' \in {"refresh", "refresh_again"} /\ result' = "ok"
Height == Rows(message_is_shown, num_rows)

IsCell(k) == k[1] = "Ch"
\* the character cells among the tokens
Cells(toks) == LET c == SelectSeq(toks, IsCell) IN [i \in 1..Len(c) |-> c[i][4]]
HasTok(toks, k) == \E i \in 1..Len(toks) : toks[i] = k

\* what painting file row fr now would put on its line
RowCells(fr) ==
    Cells(DrawRowChars(rows[fr + 1], 1, 0, Self,
                       [toks |-> << >>, prev_color |-> "Reset"]).toks)
BannerCells == Cells(DrawWelcomeMessage(Self))
\* the frame painted rows: draw_rows opens with a Reset right after the hide
PaintedRows == Len(out) >= 3 /\ out[3] = Sgr("Reset")

\* C1 (as amended): after every successful refresh that leaves the dirty mark
\* clean, each line y of the text viewport whose file row y + rowoff exists shows
\* that row as it is now; a line whose file row does not exist shows the '~'
\* marker or, while the text buffer is empty, the welcome banner.
C1_NoStaleRows ==
    (AfterRefresh /\ dirty_start = None) =>
        \A y \in 0..(Height - 1) :
            IF y + rowoff < Len(rows)
            THEN term[y] = RowCells(y + rowoff)
            ELSE \/ term[y] = <<"~">>
                 \/ rows = << >> /\ term[y] = BannerCells

\* C1 as stated: a line whose file row does not exist shows the '~' marker.
C1_Original ==
    (AfterRefresh /\ dirty_start = None) =>
        \A y \in 0..(Height - 1) :
            IF y + rowoff < Len(rows)
            THEN term[y] = RowCells(y + rowoff)
            ELSE term[y] = <<"~">>

\* a frame repainted the rows from the second line on and skipped the first,
\* which holds a row of the buffer
C1_Witness ==
    /\ AfterRefresh /\ dirty_start = None
    /\ PaintedRows /\ ~HasTok(out, Move(1)) /\ HasTok(out, Move(2))
    /\ rowoff < Len(rows) /\ Height >= 2
    /\ term[0] = RowCells(rowoff)

\* C2: after each successful refresh the cursor's row lies in the text viewport
\* whose height rows() reports after that refresh.
C2_CursorRowInViewport ==
    AfterRefresh => (rowoff <= cy /\ cy < rowoff + Height)

\* C3: after each successful refresh the column offset is the summed display
\* width of some prefix of the cursor's row.
C3_GlyphBoundary ==
    AfterRefresh =>
        coloff \in (IF cy < Len(rows) THEN Boundaries(rows[cy + 1]) ELSE {0})

\* do_scroll is about to scroll right: rx >= coloff + num_cols
ScrollsRight ==
    LET rx1 == IF cy < Len(rows) THEN RxFromCx(rows[cy + 1], cx) ELSE 0
        co1 == IF rx1 < coloff THEN rx1 ELSE coloff
    IN  rx1 >= co1 + num_cols

\* C4: after each successful refresh coloff <= rx < coloff + num_cols, and a
\* refresh that scrolls right leaves rx - num_cols + 1 <= coloff <= rx.
C4_ColumnInViewport ==
    [][RefreshStep =>
          /\ coloff' <= rx' /\ rx' < coloff' + num_cols'
          /\ ScrollsRight => (rx' - num_cols' + 1 <= coloff' /\ coloff' <= rx')
      ]_vars

\* a refresh has scrolled right onto a glyph boundary past the wanted column
C4_Witness ==
    /\ AfterRefresh /\ cy < Len(rows)
    /\ coloff > rx - num_cols + 1 /\ coloff > 0 /\ coloff < rx
    /\ coloff \in Boundaries(rows[cy + 1])

\* C5: a refresh at which more than 5 seconds have passed since the message was
\* painted hides the message, whatever the fraction of a second.
C5_HiddenAfterFiveSeconds ==
    [][(RefreshStep /\ HasTimestamp(message)
        /\ now - Unwrap(Unwrap(message).timestamp)
               > MessageTimeoutSecs * TicksPerSec)
       => message' = None]_vars

\* the tokens go to the given line for something else than the status bar
WritesMessageLine(toks, line) ==
    \E i \in 1..Len(toks) :
        /\ toks[i] = Move(line)
        /\ (i = Len(toks) \/ toks[i + 1] /= Sgr("Invert"))

\* C6: the refresh that takes a message from Shown to Hidden writes no cell of
\* the message, makes rows() one larger and leaves the dirty mark on the file
\* row revealed at the bottom, rowoff + rows() - 1; the refresh that follows
\* repaints that row when it is in the viewport.
C6_Squashing ==
    [][/\ (RefreshStep /\ HasTimestamp(message)
           /\ ShouldRedrawMessageBar(message, now))
          => /\ message' = None
             /\ ~HasTok(out', Ch("M"))
             /\ ~WritesMessageLine(out', num_rows + 2)
             /\ Height' = Height + 1
             /\ dirty_start' = Some(rowoff' + Height' - 1)
       /\ (AfterRefresh /\ IsSome(dirty_start) /\ RefreshStep
           /\ rowoff' <= Unwrap(dirty_start)
           /\ Unwrap(dirty_start) < rowoff' + Height')
          => HasTok(out', Move(Unwrap(dirty_start) - rowoff' + 1))
      ]_vars

\* a refresh that had nothing else to paint has just squashed the bar of a
\* message that expired
C6_Witness ==
    /\ AfterRefresh /\ message = None /\ ~message_is_shown
    /\ now > MessageTimeoutSecs * TicksPerSec
    /\ ~status_bar.redraw /\ ~PaintedRows
    /\ dirty_start = Some(rowoff + Height - 1)
    /\ ~HasTok(out, Ch("M")) /\ HasTok(out, HideCursor)

\* C7: the second of two refreshes in a row, with no model change, cursor move,
\* message call or resize in between, writes nothing to the output sink. The
\* status bar's redraw flag is down, and the first refresh left the dirty mark
\* clean: it did not squash the bar of an expired message.
C7_IdempotentRefresh ==
    [][(AfterRefresh /\ ~status_bar.redraw /\ dirty_start = None
        /\ op' = "refresh_again")
       => out' = << >>]_vars

Min3(a, b, c) == Min(a, Min(b, c))

\* C8: after set_dirty_start(a) and set_dirty_start(b) on a mark m the mark is
\* min(a, b) if m was clean and min(m, a, b) otherwise, the same for both
\* orders; marking a line twice is marking it once; no call raises the mark.
C8_DirtyMarkMerge ==
    /\ \A i \in 1..Len(hist) :
          LET after == IF i < Len(hist) THEN hist[i + 1].before ELSE dirty_start
          IN  /\ IsSome(after) /\ Unwrap(after) <= hist[i].start
              /\ IsSome(hist[i].before) => Unwrap(after) <= Unwrap(hist[i].before)
    /\ Len(hist) = 2 =>
          LET m == hist[1].before
              a == hist[1].start
              b == hist[2].start
          IN  /\ dirty_start = Some(IF m = None THEN Min(a, b)
                                    ELSE Min3(Unwrap(m), a, b))
              /\ dirty_start = SetDirtyStart(SetDirtyStart(m, b), a)
              /\ a = b => dirty_start = hist[2].before

\* two calls have lowered a dirty mark twice
C8_Witness ==
    /\ Len(hist) = 2 /\ IsSome(hist[1].before)
    /\ hist[1].start < Unwrap(hist[1].before)
    /\ hist[2].start < hist[1].start
    /\ dirty_start = Some(hist[2].start)

C10_MinimumWindow == num_cols >= 1 /\ num_rows >= MinHeight - ReservedLines

\* a refresh that ran to its end, whatever it returned
RefreshReturned == op' \in {"refresh", "refresh_again"} /\ result' \in {"ok", "err"}

\* C11: a refresh at which the clock is earlier than the timestamp of the Shown
\* message returns success and keeps the message Shown.
C11_ClockErrorKeepsFrame ==
    [][(RefreshReturned /\ ClockError(message, now))
       => (result' = "ok" /\ message' = message /\ message_is_shown')]_vars

\* C12: dropping the Screen never panics, whether or not its write fails.
C12_TeardownNeverPanics == op = "drop" => result /= "panic"

\* the first cursor-position report of the stream is its i-th item
FirstReportAt(stream, i) ==
    /\ i \in 1..Len(stream) /\ stream[i][1] = "Cursor"
    /\ \A j \in 1..(i - 1) : stream[j] = KeyEvent
ProbeStep == op' = "maybe_resize"

\* C13: with no size from the OS and a working sink, the size probe writes and
\* flushes the far-corner moves and the cursor-position query, then takes
\* decoded events from the input in order up to the first cursor-position
\* report and returns (column, row) of that report; if the input ends without a
\* report it fails with UnknownWindowSize; it returns no size that no report
\* carried.
C13_SizeProbe ==
    [][(ProbeStep /\ os_size = None /\ result' /= "io_err")
       => /\ out' = ProbeQuery \o <<Flush>>
          /\ hist' \o input' = input
          /\ \A i \in 1..Len(input) :
                FirstReportAt(input, i)
                => /\ result' = "ok" /\ Len(hist') = i
                   /\ size' = Some(<<input[i][3], input[i][2]>>)
          /\ (\A i \in 1..Len(input) : input[i] = KeyEvent)
             => /\ result' = "unknown_window_size" /\ size' = None
                /\ input' = << >>
          /\ IsSome(size')
             => \E i \in 1..Len(hist') :
                   hist'[i] = CursorEvent(Unwrap(size')[2], Unwrap(size')[1])]_vars

\* a report was returned after a key was discarded, another report being left
\* unread
C13_Witness ==
    /\ op = "maybe_resize" /\ result = "ok" /\ os_size = None
    /\ Len(hist) = 2 /\ hist[1] = KeyEvent
    /\ size = Some(<<hist[2][3], hist[2][2]>>)
    /\ Len(input) = 1 /\ input[1][1] = "Cursor" /\ input[1] /= hist[2]

RefreshCall == op' \in {"refresh", "refresh_again"}
\* the message needs no repaint: there is none, or it is Shown and not expired
MessageAtRest ==
    \/ message = None
    \/ /\ HasTimestamp(message)
       /\ now >= Unwrap(Unwrap(message).timestamp)
       /\ (now - Unwrap(Unwrap(message).timestamp)) \div TicksPerSec
              <= MessageTimeoutSecs
\* what an idle cycle does
IdleCycle ==
    /\ result' = "ok"
    /\ out' = IF cursor_moved
              THEN <<Cup(cy - rowoff' + 1, rx' - coloff' + 1), Flush>>
              ELSE << >>
    /\ ~HasTok(out', HideCursor) /\ ~HasTok(out', ShowCursor)
    /\ dirty_start' = None /\ message' = message
    /\ Rows(message_is_shown', num_rows') = Height
    /\ ~cursor_moved'

\* C14 (as amended): when the dirty mark is still clean after the scroll step
\* of the refresh (it was clean and the cursor lies inside the viewport), the
\* status bar's redraw flag is false and the message needs no repaint, refresh
\* writes one cursor-position command if cursor_moved was set and nothing
\* otherwise, emits no cursor hide/show, leaves the dirty mark, the message
\* state and the effective row count unchanged and clears cursor_moved.
C14_IdleCycle ==
    [][(RefreshCall /\ DoScroll(rows, cx, cy, Self).dirty_start = None
        /\ ~status_bar.redraw /\ MessageAtRest) => IdleCycle]_vars

\* C14 (as stated): the same with the dirty mark clean when refresh is called.
C14_Original ==
    [][(RefreshCall /\ dirty_start = None
        /\ ~status_bar.redraw /\ MessageAtRest) => IdleCycle]_vars

\* an idle cycle moved the cursor under a message that stays Shown
C14_Witness ==
    /\ AfterRefresh /\ Len(out) = 2 /\ out[1][1] = "Cup"
    /\ dirty_start = None /\ ~status_bar.redraw
    /\ message_is_shown /\ MessageAtRest /\ message /= None

\* where the tokens open the status bar, the message bar, a text line
StatusAt(toks) ==
    {i \in 1..(Len(toks) - 1) : toks[i][1] = "Move" /\ toks[i + 1] = Sgr("Invert")}
MessageAt(toks, line) ==
    {i \in 1..Len(toks) :
        toks[i] = Move(line) /\ (i = Len(toks) \/ toks[i + 1] /= Sgr("Invert"))}
RowsAt(toks, line) ==
    {i \in 1..Len(toks) : toks[i][1] = "Move"} \ (StatusAt(toks) \cup MessageAt(toks, line))
FlushesAt(toks) == {i \in 1..Len(toks) : toks[i] = Flush}
\* the buffer of a Repaint frame: what lies between the flushed cursor-hide
\* command and the closing cursor position, cursor show and flush
FrameBuffer(toks) == SubSeq(toks, 3, Len(toks) - 3)
\* redraw takes the Repaint path
RepaintCycle ==
    \/ IsSome(DoScroll(rows, cx, cy, Self).dirty_start)
    \/ status_bar.redraw
    \/ ~MessageAtRest

\* C15: a Repaint cycle makes two flushed writes: the cursor-hide command alone,
\* then one buffer holding, in this order, the row region (exactly when the mark
\* is dirty after the scroll step), the message bar (only when the message needs
\* a repaint), the status bar (exactly when its redraw flag is set or the
\* message bar's visibility toggles in the frame), the cursor position and, last,
\* the cursor-show command; the status bar goes to the line below the text area
\* that the message state left by the frame gives.
C15_FrameOrdering ==
    [][(RefreshStep /\ RepaintCycle)
       => LET n == Len(out')
              buf == FrameBuffer(out')
              msgline == num_rows + 2
          IN  /\ n >= 5
              /\ out'[1] = HideCursor
              /\ FlushesAt(out') = {2, n}
              /\ out'[n - 2] = Cup(WrapSubPlus1(cy, rowoff'),
                                   WrapSubPlus1(rx', coloff'))
              /\ out'[n - 1] = ShowCursor
              /\ \A i \in 1..Len(buf) : buf[i][1] \notin {"Hide", "Show", "Cup"}
              /\ IsSome(DoScroll(rows, cx, cy, Self).dirty_start)
                 <=> (buf /= << >> /\ buf[1] = Sgr("Reset"))
              /\ RowsAt(buf, msgline) /= {}
                 => IsSome(DoScroll(rows, cx, cy, Self).dirty_start)
              /\ MessageAt(buf, msgline) /= {} => ~MessageAtRest
              /\ (status_bar.redraw \/ message_is_shown' /= message_is_shown)
                 <=> StatusAt(buf) /= {}
              /\ \A r \in RowsAt(buf, msgline) :
                    \A m \in MessageAt(buf, msgline) \cup StatusAt(buf) : r < m
              /\ \A m \in MessageAt(buf, msgline) : \A t \in StatusAt(buf) : m < t
              /\ \A t \in StatusAt(buf) :
                    buf[t] = Move(Rows(message_is_shown', num_rows) + 1)]_vars

\* a frame with the three regions, its status bar drawn only because the message
\* bar appears
C15_Witness ==
    /\ AfterRefresh /\ Len(out) >= 5 /\ out[1] = HideCursor
    /\ ~status_bar.redraw /\ message_is_shown
    /\ RowsAt(FrameBuffer(out), num_rows + 2) /= {}
    /\ MessageAt(FrameBuffer(out), num_rows + 2) /= {}
    /\ StatusAt(FrameBuffer(out)) /= {}

IsSgr(k) == k[1] = "Sgr"
\* the attribute in force after the tokens, the terminal being neutral before
ActiveAttribute(toks) ==
    LET sgr == SelectSeq(toks, IsSgr)
    IN  IF sgr = << >> THEN "Reset" ELSE sgr[Len(sgr)][4]

\* C16: every frame written by refresh ends with the terminal's attributes
\* neutral: the last attribute sequence of the frame, if any, is Reset.
C16_NoAttributeLeak == AfterRefresh => ActiveAttribute(out) = "Reset"

\* no frame has been rendered since Screen::new: the terminal still has a line
\* of the text area that no refresh painted
FirstRenderPass == \E y \in DOMAIN term : term[y] = Unpainted

\* C17: a refresh draws the welcome banner only when the text buffer has no rows
\* and the frame is the first one rendered after Screen::new.
C17_WelcomeBanner ==
    [][(RefreshStep /\ HasTok(out', Ch("K")))
       => (rows = << >> /\ FirstRenderPass)]_vars

RefreshFailed == op' = "refresh" /\ result' = "io_err"

\* C18: a refresh in which a write or a flush fails returns the I/O error,
\* keeps the dirty mark that its scroll step left and does not advance the
\* message: a Pending message stays Pending, a Shown one stays Shown.
C18_FailedFrameKeepsState ==
    [][RefreshFailed
       => /\ dirty_start' = DoScroll(rows, cx, cy, Self).dirty_start
          /\ message' = message
          /\ message_is_shown' = message_is_shown]_vars

DoScrollStep == op' = "do_scroll"
\* the claim's scenario: 80x24, cursor at row 50 column 0, row offset 0 and a
\* clean dirty mark
ScrollScenario ==
    /\ num_cols = 80 /\ num_rows + ReservedLines = 24
    /\ cy = 50 /\ cx = 0 /\ rowoff = 0 /\ dirty_start = None

\* C19 (as amended): on an 80x24 terminal the scroll step uses the effective
\* height, 22 rows while a message is shown and 23 otherwise: with the cursor at
\* row 50 column 0, row offset 0 and a clean mark it sets the row offset to 29
\* while a message is shown and to 28 otherwise, and the mark to that offset; in
\* general, when either offset changes the mark becomes the minimum of the old
\* mark and the new row offset, and otherwise it is left alone.
C19_ScrollDown ==
    [][DoScrollStep
       => /\ ScrollScenario
             => /\ rowoff' = IF message_is_shown THEN 29 ELSE 28
                /\ dirty_start' = Some(rowoff')
          /\ IF rowoff' /= rowoff \/ coloff' /= coloff
             THEN dirty_start' = Some(IF dirty_start = None THEN rowoff'
                                      ELSE Min(Unwrap(dirty_start), rowoff'))
             ELSE dirty_start' = dirty_start]_vars

\* C19 (as stated): in the scenario the row offset becomes 29 and the mark
\* 'dirty from 29'.
C19_Original ==
    [][(DoScrollStep /\ ScrollScenario)
       => (rowoff' = 29 /\ dirty_start' = Some(29))]_vars

\* the scenario was scrolled with no message shown
C19_Witness ==
    /\ op = "do_scroll" /\ result = "ok" /\ cy = 50 /\ cx = 0
    /\ hist = <<[rowoff |-> 0, coloff |-> 0, dirty_start |-> None]>>
    /\ ~message_is_shown /\ rowoff = 28 /\ dirty_start = Some(28)

\* the display width of the cells a line of the terminal shows
LineWidth(cells) == PrefixWidth(cells, Len(cells))

\* C20: after a refresh every line of the text viewport that shows a row of the
\* text holds glyphs whose display widths sum to at most num_cols.
C20_RowsFitViewport ==
    AfterRefresh =>
        \A y \in 0..(Height - 1) :
            (y + rowoff < Len(rows) /\ y \in DOMAIN term
             /\ term[y] \notin {Unpainted, Outside})
            => LineWidth(term[y]) <= num_cols

\* C21: after every successful refresh rows() is num_rows exactly when a message
\* with a recorded display time exists, and num_rows + 1 otherwise.
C21_HeightTracksMessage ==
    AfterRefresh =>
        Height = IF HasTimestamp(message) THEN num_rows ELSE num_rows + 1

====
